---- MODULE Spec2Model ----
(***************************************************************************)
(* RpcAccountStore of mollusk-on-demand (src/src/lib.rs): an account cache *)
(* filled by batched getMultipleAccounts calls and by mock overrides, and  *)
(* the two-pass resolution of cached BPF Loader v2 / v3 programs into ELF  *)
(* bytes registered with a Mollusk instance.                               *)
(*                                                                         *)
(* A Pubkey is its 32 bytes, account data is a sequence of bytes, and      *)
(* Option<T> is a sequence of length 0 (None) or 1 (Some).                 *)
(* Rust slices are 0-based and half-open: data[a..b] is SubSeq(data,a+1,b) *)
(***************************************************************************)
EXTENDS Integers, Sequences, FiniteSets, TLC

VARIABLES cache, allow_missing_accounts, validate_programs, mollusk, last, ops

vars == <<cache, allow_missing_accounts, validate_programs, mollusk, last, ops>>

----------------------------------------------------------------------------
(* Bounds of the model *)

\* addresses that instructions and mocks may name
NumKeys == 3
\* account metas of the instruction handed to from_instruction
MaxMetas == 2
\* instructions handed to one from_instructions call
MaxIx == 2
\* account metas of each instruction handed to from_instructions
MaxIxMetas == 1
\* (pubkey, account) pairs handed to one with_accounts call
MaxMocks == 1
\* builder calls chained on one store
MaxOps == 3
\* account records of a cache written to a fixture
MaxFixtureAccounts == 2

----------------------------------------------------------------------------
(* Layout constants of the source *)

\* validate_elf: minimum length of an ELF header
ELF_MIN_LEN == 52
\* validate_elf: offset of the ELF class byte
ELF_CLASS_OFFSET == 4
\* add_programs: a v3 program account holds its pointer in data[4..36]
PTR_START == 4
PTR_END == 36
\* add_programs: the ELF starts at offset 45 of the program data account
ELF_OFFSET == 45

ELF_MAGIC == <<127, 69, 76, 70>>

LOADER_V2 ==
    <<2, 168, 246, 145, 78, 136, 161, 110, 57, 90, 225, 40, 148, 143, 250, 105,
      86, 147, 55, 104, 24, 221, 71, 67, 82, 33, 243, 198, 0, 0, 0, 0>>

LOADER_V3 ==
    <<2, 168, 246, 145, 78, 136, 161, 176, 226, 16, 21, 62, 247, 99, 174, 43,
      0, 194, 185, 61, 22, 193, 36, 210, 192, 83, 122, 16, 4, 128, 0, 0>>

----------------------------------------------------------------------------
(* Values *)

Zeros(n) == [j \in 1..n |-> 0]

Min(a, b) == IF a < b THEN a ELSE b

Range(s) == {s[i] : i \in 1..Len(s)}

\* Pubkey::default(): 32 zero bytes
PubkeyDefault == Zeros(32)

\* solana_account::Account
Account(l, d, o, e, r) ==
    [lamports |-> l, data |-> d, owner |-> o, executable |-> e, rent_epoch |-> r]

\* Account::default()
AccountDefault == Account(0, <<>>, PubkeyDefault, FALSE, 0)

\* Pubkey::try_from(&[u8]): the 32 bytes are the key; any other length fails
PubkeyTryFrom(bytes) == IF Len(bytes) = 32 THEN <<bytes>> ELSE <<>>

\* Result<(), RpcError> and the fields of the error
Ok == [kind |-> "Ok", key |-> <<>>, reason |-> "", arg |-> <<>>]

Err(kind, key, reason, arg) == [kind |-> kind, key |-> key, reason |-> reason, arg |-> arg]

----------------------------------------------------------------------------
(* Accounts the mocks and the cluster may hold *)

NATIVE_LOADER ==
    <<5, 135, 132, 191, 20, 139, 164, 40, 47, 176, 18, 87, 72, 136, 169, 241,
      83, 160, 125, 173, 247, 101, 192, 69, 92, 154, 151, 3, 128, 0, 0, 0>>

\* the i-th address of the model
Key(i) == <<i>> \o Zeros(31)

Keys == {Key(i) : i \in 1..NumKeys}

\* a 64-bit little-endian ELF header of the minimum length
ElfImage == <<127, 69, 76, 70, 2, 1, 1>> \o Zeros(45)

\* UpgradeableLoaderState::ProgramData: tag 3, slot, no upgrade authority
ProgramDataHeader == <<3, 0, 0, 0>> \o Zeros(41)

\* a v2 program: the ELF is the account data
DirectProgram == Account(1, ElfImage, LOADER_V2, TRUE, 0)

\* a v3 program: UpgradeableLoaderState::Program, tag 2 and the pointer
IndirectProgram(p) == Account(1, <<2, 0, 0, 0>> \o p, LOADER_V3, TRUE, 0)

\* a v3 program account cut one byte short of its pointer
TruncatedProgram ==
    Account(1, <<2, 0, 0, 0>> \o Zeros(31), LOADER_V3, TRUE, 0)

\* a program data account of 50 bytes: the header and 5 more bytes
ProgramData50 ==
    Account(2, ProgramDataHeader \o <<127, 69, 76, 70, 2>>, LOADER_V3, FALSE, 0)

\* a program data account holding a whole ELF image
ProgramDataElf == Account(2, ProgramDataHeader \o ElfImage, LOADER_V3, FALSE, 0)

\* an executable account of a loader this crate does not resolve
ForeignProgram == Account(1, ElfImage, NATIVE_LOADER, TRUE, 0)

\* the accounts a test may pre-seed with with_accounts
MockAccounts ==
    {DirectProgram, IndirectProgram(Key(1)), IndirectProgram(Key(2)), TruncatedProgram,
     ProgramDataElf, ForeignProgram}

\* the account the ledger holds at address k, once it exists
OnChain(k) ==
    IF k = Key(1) THEN ProgramData50
    ELSE IF k = Key(2) THEN TruncatedProgram
    ELSE IF k = Key(3) THEN DirectProgram
    ELSE ProgramDataElf

\* what the cluster may answer for address k: None, or Some(account)
NetReplies(k) == {<<>>, <<OnChain(k)>>}

SeqsUpTo(S, n) == UNION {[1..m -> S] : m \in 0..n}

\* instruction.accounts as the list of its pubkeys, of at most n metas
Metas(n) == SeqsUpTo(Keys, n)

\* the orders in which a HashMap or HashSet may yield the elements of S
Orders(S) ==
    {f \in [1..Cardinality(S) -> S] : \A i, j \in 1..Cardinality(S) : f[i] = f[j] => i = j}

----------------------------------------------------------------------------
(* validate_elf *)

StartsWith(data, prefix) ==
    /\ Len(data) >= Len(prefix)
    /\ SubSeq(data, 1, Len(prefix)) = prefix

\* Result<(), String>: <<>> is Ok(()), <<reason>> is Err(reason)
\* mutant: a buffer of exactly 52 bytes is rejected as too small
validate_elf_over_52(data) ==
    IF Len(data) <= ELF_MIN_LEN THEN <<"Data too small to be a valid ELF file">>
    ELSE IF ~StartsWith(data, ELF_MAGIC) THEN <<"Invalid ELF magic number">>
    ELSE IF data[ELF_CLASS_OFFSET + 1] # 1 /\ data[ELF_CLASS_OFFSET + 1] # 2
         THEN <<"Invalid ELF class">>
    ELSE <<>>

validate_elf(data) ==
    IF Len(data) < ELF_MIN_LEN THEN <<"Data too small to be a valid ELF file">>
    ELSE IF ~StartsWith(data, ELF_MAGIC) THEN <<"Invalid ELF magic number">>
    ELSE IF data[ELF_CLASS_OFFSET + 1] # 1 /\ data[ELF_CLASS_OFFSET + 1] # 2
         THEN <<"Invalid ELF class">>
    ELSE <<>>

----------------------------------------------------------------------------
(* The cache and fetch_accounts *)

\* HashMap::insert
Insert(map, k, v) == [x \in DOMAIN map \cup {k} |-> IF x = k THEN v ELSE map[x]]

EmptyMap == [x \in {} |-> AccountDefault]

\* mutant: the filter on cached keys is lost
missing_pubkeys_unfiltered(c, pubkeys) == pubkeys

\* pubkeys.iter().filter(|pubkey| !self.cache.contains_key(pubkey))
missing_pubkeys(c, pubkeys) == SelectSeq(pubkeys, LAMBDA k : k \notin DOMAIN c)

\* mutant: an account the cluster returned is not stored
RECURSIVE StoreFetched_dropping(_, _, _, _, _)
StoreFetched_dropping(c, missing, accounts, allow, i) ==
    IF i > Min(Len(missing), Len(accounts)) THEN [cache |-> c, result |-> Ok]
    ELSE IF accounts[i] # <<>>
         THEN StoreFetched_dropping(c, missing, accounts, allow, i + 1)
    ELSE IF allow
         THEN StoreFetched_dropping(Insert(c, missing[i], AccountDefault), missing, accounts,
                                    allow, i + 1)
    ELSE [cache |-> c, result |-> Err("AccountNotFound", missing[i], "", <<>>)]

\* mutant: in strict mode an address that was not found is passed over
RECURSIVE StoreFetched_passing_over(_, _, _, _, _)
StoreFetched_passing_over(c, missing, accounts, allow, i) ==
    IF i > Min(Len(missing), Len(accounts)) THEN [cache |-> c, result |-> Ok]
    ELSE IF accounts[i] # <<>>
         THEN StoreFetched_passing_over(Insert(c, missing[i], accounts[i][1]), missing,
                                        accounts, allow, i + 1)
    ELSE IF allow
         THEN StoreFetched_passing_over(Insert(c, missing[i], AccountDefault), missing,
                                        accounts, allow, i + 1)
    ELSE StoreFetched_passing_over(c, missing, accounts, allow, i + 1)

\* mutant: allow_missing_accounts is not consulted
RECURSIVE StoreFetched_always_strict(_, _, _, _, _)
StoreFetched_always_strict(c, missing, accounts, allow, i) ==
    IF i > Min(Len(missing), Len(accounts)) THEN [cache |-> c, result |-> Ok]
    ELSE IF accounts[i] # <<>>
         THEN StoreFetched_always_strict(Insert(c, missing[i], accounts[i][1]), missing,
                                         accounts, allow, i + 1)
    ELSE [cache |-> c, result |-> Err("AccountNotFound", missing[i], "", <<>>)]

\* mutant: the replies are paired with the addresses back to front
RECURSIVE StoreFetched_misaligned(_, _, _, _, _)
StoreFetched_misaligned(c, missing, accounts, allow, i) ==
    IF i > Min(Len(missing), Len(accounts)) THEN [cache |-> c, result |-> Ok]
    ELSE LET j == Len(accounts) + 1 - i
         IN IF accounts[j] # <<>>
            THEN StoreFetched_misaligned(Insert(c, missing[i], accounts[j][1]), missing,
                                         accounts, allow, i + 1)
            ELSE IF allow
            THEN StoreFetched_misaligned(Insert(c, missing[i], AccountDefault), missing,
                                         accounts, allow, i + 1)
            ELSE [cache |-> c, result |-> Err("AccountNotFound", missing[i], "", <<>>)]

\* the loop over missing_pubkeys.iter().zip(accounts), from its i-th pair on
RECURSIVE StoreFetched(_, _, _, _, _)
StoreFetched(c, missing, accounts, allow, i) ==
    IF i > Min(Len(missing), Len(accounts)) THEN [cache |-> c, result |-> Ok]
    ELSE IF accounts[i] # <<>>
         THEN StoreFetched(Insert(c, missing[i], accounts[i][1]), missing, accounts, allow, i + 1)
    ELSE IF allow
         THEN StoreFetched(Insert(c, missing[i], AccountDefault), missing, accounts, allow, i + 1)
    ELSE [cache |-> c, result |-> Err("AccountNotFound", missing[i], "", <<>>)]

\* mutant: one get_multiple_accounts call per missing address
fetch_accounts_per_key(c, allow, pubkeys, down, snap) ==
    LET missing == missing_pubkeys(c, pubkeys) IN
    IF missing = <<>>
    THEN [cache |-> c, calls |-> <<>>, replies |-> <<>>, result |-> Ok]
    ELSE IF down
    THEN [cache |-> c, calls |-> <<<<missing[1]>>>>, replies |-> <<>>,
          result |-> Err("Client", <<>>, "", <<>>)]
    ELSE LET accounts == [i \in 1..Len(missing) |-> snap[missing[i]]]
             stored == StoreFetched(c, missing, accounts, allow, 1)
         IN [cache |-> stored.cache,
             calls |-> [i \in 1..Len(missing) |-> <<missing[i]>>],
             replies |-> [i \in 1..Len(missing) |-> <<accounts[i]>>],
             result |-> stored.result]

\* mutant: a failed request is sent a second time, and the answer to the
\* second attempt is stored
fetch_accounts_retrying(c, allow, pubkeys, down, snap) ==
    LET missing == missing_pubkeys(c, pubkeys) IN
    IF missing = <<>>
    THEN [cache |-> c, calls |-> <<>>, replies |-> <<>>, result |-> Ok]
    ELSE LET accounts == [i \in 1..Len(missing) |-> snap[missing[i]]]
             stored == StoreFetched(c, missing, accounts, allow, 1)
         IN [cache |-> stored.cache,
             calls |-> IF down THEN <<missing, missing>> ELSE <<missing>>,
             replies |-> <<accounts>>,
             result |-> stored.result]

\* fetch_accounts on cache c. The cluster either fails the request (down) or
\* answers every address of the batch from one snapshot snap of the ledger.
\* calls lists the batches handed to get_multiple_accounts, replies its answers.
fetch_accounts(c, allow, pubkeys, down, snap) ==
    LET missing == missing_pubkeys(c, pubkeys) IN
    IF missing = <<>>
    THEN [cache |-> c, calls |-> <<>>, replies |-> <<>>, result |-> Ok]
    ELSE IF down
    THEN [cache |-> c, calls |-> <<missing>>, replies |-> <<>>,
          result |-> Err("Client", <<>>, "", <<>>)]
    ELSE LET accounts == [i \in 1..Len(missing) |-> snap[missing[i]]]
             stored == StoreFetched(c, missing, accounts, allow, 1)
         IN [cache |-> stored.cache, calls |-> <<missing>>, replies |-> <<accounts>>,
             result |-> stored.result]

\* the answers the cluster may give to a fetch of pubkeys on cache c
Snapshots(c, pubkeys) ==
    {snap \in [Range(missing_pubkeys(c, pubkeys)) -> {<<>>} \cup {<<OnChain(k)>> : k \in Keys}] :
        \A k \in DOMAIN snap : snap[k] \in NetReplies(k)}

----------------------------------------------------------------------------
(* add_programs *)

\* the pointer of a v3 program account: Pubkey::try_from(&account.data[4..36])
program_data_pubkey(account) == PubkeyTryFrom(SubSeq(account.data, PTR_START + 1, PTR_END))

TooSmall(pubkey, account) ==
    Err("MalformedProgram", pubkey, "BPF Loader v3 program account too small",
        <<Len(account.data)>>)

BadPointer(pubkey) == Err("MalformedProgram", pubkey, "Invalid program data pubkey", <<>>)

\* mutant: a v3 program account too small for a pointer is passed over
RECURSIVE FirstPass_no_size_check(_, _, _, _)
FirstPass_no_size_check(c, order, i, pointers) ==
    IF i > Len(order) THEN [result |-> Ok, program_data_pubkeys |-> pointers]
    ELSE LET pubkey == order[i]
             account == c[pubkey]
         IN IF account.executable /\ account.owner = LOADER_V3 /\ Len(account.data) >= PTR_END
            THEN LET p == program_data_pubkey(account)
                 IN IF p[1] \notin DOMAIN c
                    THEN FirstPass_no_size_check(c, order, i + 1, Append(pointers, p[1]))
                    ELSE FirstPass_no_size_check(c, order, i + 1, pointers)
            ELSE FirstPass_no_size_check(c, order, i + 1, pointers)

\* mutant: the first pass reads a pointer out of every account the v3 loader
\* owns, executable or not
RECURSIVE FirstPass_ignoring_executable(_, _, _, _)
FirstPass_ignoring_executable(c, order, i, pointers) ==
    IF i > Len(order) THEN [result |-> Ok, program_data_pubkeys |-> pointers]
    ELSE LET pubkey == order[i]
             account == c[pubkey]
         IN IF account.owner = LOADER_V3
            THEN IF Len(account.data) < PTR_END
                 THEN [result |-> TooSmall(pubkey, account), program_data_pubkeys |-> pointers]
                 ELSE LET p == program_data_pubkey(account)
                      IN IF p = <<>>
                         THEN [result |-> BadPointer(pubkey), program_data_pubkeys |-> pointers]
                         ELSE IF p[1] \notin DOMAIN c
                         THEN FirstPass_ignoring_executable(c, order, i + 1,
                                                            Append(pointers, p[1]))
                         ELSE FirstPass_ignoring_executable(c, order, i + 1, pointers)
            ELSE FirstPass_ignoring_executable(c, order, i + 1, pointers)

\* First pass over the cache in iteration order `order`, from its i-th entry on:
\* the pointers of the v3 programs that are not cached, or the first error.
RECURSIVE FirstPass(_, _, _, _)
FirstPass(c, order, i, pointers) ==
    IF i > Len(order) THEN [result |-> Ok, program_data_pubkeys |-> pointers]
    ELSE LET pubkey == order[i]
             account == c[pubkey]
         IN IF account.executable /\ account.owner = LOADER_V3
            THEN IF Len(account.data) < PTR_END
                 THEN [result |-> TooSmall(pubkey, account), program_data_pubkeys |-> pointers]
                 ELSE LET p == program_data_pubkey(account)
                      IN IF p = <<>>
                         THEN [result |-> BadPointer(pubkey), program_data_pubkeys |-> pointers]
                         ELSE IF p[1] \notin DOMAIN c
                         THEN FirstPass(c, order, i + 1, Append(pointers, p[1]))
                         ELSE FirstPass(c, order, i + 1, pointers)
            ELSE FirstPass(c, order, i + 1, pointers)

\* one call of mollusk.add_program_with_elf_and_loader(pubkey, elf, loader_key)
Registration(pubkey, elf, loader_key) ==
    [pubkey |-> pubkey, elf |-> elf, loader_key |-> loader_key]

\* mutant: the v2 branch strips a program data header as the v3 branch does
direct_elf_stripped(account) == SubSeq(account.data, ELF_OFFSET + 1, Len(account.data))

\* the ELF of a v2 program: &account.data
direct_elf(account) == account.data

\* mutant: the program data header is not stripped
elf_data_with_header(program_data_account) == program_data_account.data

\* the ELF of a v3 program: &program_data_account.data[45..]
elf_data(program_data_account) ==
    SubSeq(program_data_account.data, ELF_OFFSET + 1, Len(program_data_account.data))

\* validate_elf(..).map_err(..) when validate_programs is set
\* mutant: the validation toggle is ignored and nothing is validated
Validated_never(validate, pubkey, elf) == Ok

Validated(validate, pubkey, elf) ==
    IF validate /\ validate_elf(elf) # <<>>
    THEN Err("InvalidProgramData", pubkey, validate_elf(elf)[1], <<>>)
    ELSE Ok

\* mutant: a program whose program data account is missing or too small is
\* passed over as if it were no program
RECURSIVE SecondPass_skipping_small(_, _, _, _, _)
SecondPass_skipping_small(c, order, validate, i, registered) ==
    IF i > Len(order) THEN [result |-> Ok, registered |-> registered]
    ELSE LET pubkey == order[i]
             account == c[pubkey]
             stop(e) == [result |-> e, registered |-> registered]
             skip == SecondPass_skipping_small(c, order, validate, i + 1, registered)
             add(elf) ==
                 SecondPass_skipping_small(c, order, validate, i + 1,
                            Append(registered, Registration(pubkey, elf, account.owner)))
         IN IF ~account.executable THEN skip
            ELSE IF account.owner = LOADER_V2
            THEN IF Validated(validate, pubkey, direct_elf(account)) # Ok
                 THEN stop(Validated(validate, pubkey, direct_elf(account)))
                 ELSE add(direct_elf(account))
            ELSE IF account.owner = LOADER_V3
            THEN IF Len(account.data) < PTR_END THEN stop(TooSmall(pubkey, account))
                 ELSE LET p == program_data_pubkey(account)
                      IN IF p = <<>> THEN stop(BadPointer(pubkey))
                         ELSE IF p[1] \notin DOMAIN c THEN skip
                         ELSE IF Len(c[p[1]].data) <= ELF_OFFSET THEN skip
                         ELSE IF Validated(validate, pubkey, elf_data(c[p[1]])) # Ok
                         THEN stop(Validated(validate, pubkey, elf_data(c[p[1]])))
                         ELSE add(elf_data(c[p[1]]))
            ELSE skip

\* Second pass over the cache in iteration order `order`, from its i-th entry
\* on: the registrations made so far, and Ok or the error that ended the pass.
RECURSIVE SecondPass(_, _, _, _, _)
SecondPass(c, order, validate, i, registered) ==
    IF i > Len(order) THEN [result |-> Ok, registered |-> registered]
    ELSE LET pubkey == order[i]
             account == c[pubkey]
             stop(e) == [result |-> e, registered |-> registered]
             skip == SecondPass(c, order, validate, i + 1, registered)
             add(elf) ==
                 SecondPass(c, order, validate, i + 1,
                            Append(registered, Registration(pubkey, elf, account.owner)))
         IN IF ~account.executable THEN skip
            ELSE IF account.owner = LOADER_V2
            THEN IF Validated(validate, pubkey, direct_elf(account)) # Ok
                 THEN stop(Validated(validate, pubkey, direct_elf(account)))
                 ELSE add(direct_elf(account))
            ELSE IF account.owner = LOADER_V3
            THEN IF Len(account.data) < PTR_END THEN stop(TooSmall(pubkey, account))
                 ELSE LET p == program_data_pubkey(account)
                      IN IF p = <<>> THEN stop(BadPointer(pubkey))
                         ELSE IF p[1] \notin DOMAIN c
                         THEN stop(Err("InvalidProgramData", pubkey,
                                       "Program data account not found", p[1]))
                         ELSE IF Len(c[p[1]].data) <= ELF_OFFSET
                         THEN stop(Err("InvalidProgramData", pubkey,
                                       "Program data account too small",
                                       <<Len(c[p[1]].data)>>))
                         ELSE IF Validated(validate, pubkey, elf_data(c[p[1]])) # Ok
                         THEN stop(Validated(validate, pubkey, elf_data(c[p[1]])))
                         ELSE add(elf_data(c[p[1]]))
            ELSE skip

\* the program cache of the Mollusk instance after the registrations regs
RECURSIVE AddToMollusk(_, _, _)
AddToMollusk(m, regs, i) ==
    IF i > Len(regs) THEN m
    ELSE AddToMollusk(Insert(m, regs[i].pubkey,
                             [elf |-> regs[i].elf, loader_key |-> regs[i].loader_key]),
                      regs, i + 1)

----------------------------------------------------------------------------
(* The record of the last builder call *)

\* op: the method; mocks, instructions: its arguments; fetches: the pubkey
\* lists handed to fetch_accounts, fetch_results: what it returned; calls: the
\* batches handed to get_multiple_accounts, replies: its answers; result: what
\* the method returned; registered: its add_program_with_elf_and_loader calls;
\* again: the call before it fetched the same set of pubkeys from the cluster
\* with success.
Call(op) ==
    [op |-> op, mocks |-> <<>>, instructions |-> <<>>, fetches |-> <<>>,
     fetch_results |-> <<>>, calls |-> <<>>, replies |-> <<>>, result |-> Ok,
     registered |-> <<>>, again |-> FALSE]

Again(pubkeys) ==
    /\ last.fetches # <<>>
    /\ last.calls # <<>>
    /\ last.fetch_results = <<Ok>>
    /\ Range(last.fetches[1]) = Range(pubkeys)

WithFetch(call, pubkeys, f) ==
    [call EXCEPT !.fetches = <<pubkeys>>, !.fetch_results = <<f.result>>,
                 !.calls = f.calls, !.replies = f.replies, !.result = f.result,
                 !.again = Again(pubkeys)]

\* whether the cluster may fail the request: only when there is a request
Outages(c, pubkeys) == IF missing_pubkeys(c, pubkeys) = <<>> THEN {FALSE} ELSE BOOLEAN

----------------------------------------------------------------------------
(* The store *)

\* RpcAccountStore::new / new_with_commitment, and a fresh Mollusk
Init ==
    /\ cache = EmptyMap
    /\ allow_missing_accounts = FALSE
    /\ validate_programs = TRUE
    /\ mollusk = EmptyMap
    /\ last = Call("new")
    /\ ops = 0

allow_missing_accounts_call ==
    /\ ops < MaxOps
    /\ allow_missing_accounts' = TRUE
    /\ last' = Call("allow_missing_accounts")
    /\ ops' = ops + 1
    /\ UNCHANGED <<cache, validate_programs, mollusk>>

skip_program_validation ==
    /\ ops < MaxOps
    /\ validate_programs' = FALSE
    /\ last' = Call("skip_program_validation")
    /\ ops' = ops + 1
    /\ UNCHANGED <<cache, allow_missing_accounts, mollusk>>

\* mutant: with_accounts keeps the record of an address already cached
RECURSIVE InsertAll_keeping_existing(_, _, _)
InsertAll_keeping_existing(c, accounts, i) ==
    IF i > Len(accounts) THEN c
    ELSE IF accounts[i][1] \in DOMAIN c
    THEN InsertAll_keeping_existing(c, accounts, i + 1)
    ELSE InsertAll_keeping_existing(Insert(c, accounts[i][1], accounts[i][2]), accounts, i + 1)

\* the loop of with_accounts over accounts, from its i-th pair on
RECURSIVE InsertAll(_, _, _)
InsertAll(c, accounts, i) ==
    IF i > Len(accounts) THEN c
    ELSE InsertAll(Insert(c, accounts[i][1], accounts[i][2]), accounts, i + 1)

with_accounts ==
    /\ ops < MaxOps
    /\ \E accounts \in SeqsUpTo(Keys \X MockAccounts, MaxMocks) :
          /\ cache' = InsertAll(cache, accounts, 1)
          /\ last' = [Call("with_accounts") EXCEPT !.mocks = accounts]
    /\ ops' = ops + 1
    /\ UNCHANGED <<allow_missing_accounts, validate_programs, mollusk>>

from_instruction ==
    /\ ops < MaxOps
    /\ \E instruction \in Metas(MaxMetas) :
          LET pubkeys == instruction IN
          \E down \in Outages(cache, pubkeys), snap \in Snapshots(cache, pubkeys) :
             LET f == fetch_accounts(cache, allow_missing_accounts, pubkeys, down, snap) IN
             /\ cache' = f.cache
             /\ last' = WithFetch([Call("from_instruction") EXCEPT
                                      !.instructions = <<instruction>>], pubkeys, f)
    /\ ops' = ops + 1
    /\ UNCHANGED <<allow_missing_accounts, validate_programs, mollusk>>

\* instructions.iter().flat_map(|ix| ix.accounts.iter().map(|m| m.pubkey))
RECURSIVE FlatMap(_, _)
FlatMap(instructions, i) ==
    IF i > Len(instructions) THEN <<>>
    ELSE instructions[i] \o FlatMap(instructions, i + 1)

\* mutant: the pubkeys are collected into a list, not a set
UniquePubkeys_as_list(flat) == {flat}

\* .collect::<HashSet<Pubkey>>() and then .into_iter().collect::<Vec<_>>():
\* each key once, in any order
UniquePubkeys(flat) == Orders(Range(flat))

from_instructions ==
    /\ ops < MaxOps
    /\ \E instructions \in SeqsUpTo(Metas(MaxIxMetas), MaxIx) :
       \E pubkeys \in UniquePubkeys(FlatMap(instructions, 1)) :
       \E down \in Outages(cache, pubkeys), snap \in Snapshots(cache, pubkeys) :
          LET f == fetch_accounts(cache, allow_missing_accounts, pubkeys, down, snap) IN
          /\ cache' = f.cache
          /\ last' = WithFetch([Call("from_instructions") EXCEPT
                                   !.instructions = instructions], pubkeys, f)
    /\ ops' = ops + 1
    /\ UNCHANGED <<allow_missing_accounts, validate_programs, mollusk>>

add_programs ==
    /\ ops < MaxOps
    /\ \E order1 \in Orders(DOMAIN cache) :
          LET first == FirstPass(cache, order1, 1, <<>>)
              pointers == first.program_data_pubkeys
          IN IF first.result # Ok
             THEN /\ cache' = cache
                  /\ mollusk' = mollusk
                  /\ last' = [Call("add_programs") EXCEPT !.result = first.result]
             ELSE IF pointers = <<>>
             THEN \E order2 \in Orders(DOMAIN cache) :
                     LET second == SecondPass(cache, order2, validate_programs, 1, <<>>) IN
                     /\ cache' = cache
                     /\ mollusk' = AddToMollusk(mollusk, second.registered, 1)
                     /\ last' = [Call("add_programs") EXCEPT
                                    !.result = second.result,
                                    !.registered = second.registered]
             ELSE \E down \in Outages(cache, pointers), snap \in Snapshots(cache, pointers) :
                     LET f == fetch_accounts(cache, allow_missing_accounts, pointers, down, snap)
                         fetched == WithFetch(Call("add_programs"), pointers, f)
                     IN IF f.result # Ok
                        THEN /\ cache' = f.cache
                             /\ mollusk' = mollusk
                             /\ last' = fetched
                        ELSE \E order2 \in Orders(DOMAIN f.cache) :
                                LET second ==
                                        SecondPass(f.cache, order2, validate_programs, 1, <<>>)
                                IN /\ cache' = f.cache
                                   /\ mollusk' = AddToMollusk(mollusk, second.registered, 1)
                                   /\ last' = [fetched EXCEPT
                                                  !.result = second.result,
                                                  !.registered = second.registered]
    /\ ops' = ops + 1
    /\ UNCHANGED <<allow_missing_accounts, validate_programs>>

Next ==
    \/ allow_missing_accounts_call
    \/ skip_program_validation
    \/ with_accounts
    \/ from_instruction
    \/ from_instructions
    \/ add_programs

Spec == Init /\ [][Next]_vars

----------------------------------------------------------------------------
(* Properties *)

\* the call that has just returned handed pubkeys to fetch_accounts
Fetched(call) == call.fetches # <<>>

\* how often key k occurs in the list seq
Count(seq, k) == Cardinality({i \in 1..Len(seq) : seq[i] = k})

\* C1: every address handed to get_multiple_accounts by a call was among the
\* pubkeys given to fetch_accounts and was not a key of the cache when the
\* call began; a cached address is never sent to the cluster again.
C1_OnlyMissingKeysAreSent ==
    [][\A b \in 1..Len(last'.calls) : \A i \in 1..Len(last'.calls[b]) :
          /\ Fetched(last')
          /\ last'.calls[b][i] \in Range(last'.fetches[1])
          /\ last'.calls[b][i] \notin DOMAIN cache]_vars

\* a fetch that asked for a cached key and for an uncached one, and sent only
\* the uncached one
C1_Witness ==
    /\ Fetched(last)
    /\ last.calls # <<>>
    /\ \E k \in Range(last.fetches[1]) : k \notin Range(last.calls[1])

\* C2: once a fetch of a set of addresses has succeeded, the next fetch of the
\* same set issues no network call, succeeds and leaves the cache as it was.
C2_SecondFetchIsNoOp ==
    [][(/\ Fetched(last)
        /\ last.fetch_results = <<Ok>>
        /\ Fetched(last')
        /\ Range(last'.fetches[1]) = Range(last.fetches[1]))
       => (/\ last'.calls = <<>>
           /\ last'.fetch_results = <<Ok>>
           /\ last'.result = Ok
           /\ cache' = cache)]_vars

\* the second of two fetches of the same two addresses, the first of which
\* went to the cluster
C2_Witness ==
    /\ last.again
    /\ Cardinality(Range(last.fetches[1])) = 2
    /\ last.calls = <<>>
    /\ last.result = Ok

\* C3: a call of fetch_accounts issues one get_multiple_accounts call when some
\* requested address is missing from the cache and none otherwise, and no
\* builder call issues more than one.
C3_OneRoundTrip ==
    [][/\ Len(last'.fetches) <= 1
       /\ Len(last'.calls) <= 1
       /\ Fetched(last') =>
             (Len(last'.calls) = 1 <=> \E k \in Range(last'.fetches[1]) : k \notin DOMAIN cache)
       /\ ~Fetched(last') => last'.calls = <<>>]_vars

\* one batch of two different addresses
C3_Witness ==
    /\ Len(last.calls) = 1
    /\ Cardinality(Range(last.calls[1])) = 2

\* C4: from_instructions sends each uncached key its instructions reference
\* exactly once, in one batch, however many instructions reference it.
C4_DedupAcrossInstructions ==
    [][last'.op = "from_instructions" =>
          \A n \in 1..Len(last'.instructions) :
             \A k \in Range(last'.instructions[n]) :
                k \notin DOMAIN cache =>
                   /\ Len(last'.calls) = 1
                   /\ Count(last'.calls[1], k) = 1]_vars

\* two instructions that reference the same uncached key
C4_Witness ==
    /\ last.op = "from_instructions"
    /\ Len(last.instructions) = 2
    /\ \E k \in Keys :
          /\ k \in Range(last.instructions[1])
          /\ k \in Range(last.instructions[2])
          /\ Len(last.calls) = 1
          /\ k \in Range(last.calls[1])

\* the reply of the cluster to the batch of the call, if it gave one
Replied(call) == call.replies # <<>>

\* the positions of the batch for which the cluster reported "not found"
NotFound(call) == {i \in 1..Len(call.replies[1]) : call.replies[1][i] = <<>>}

\* C5: in strict mode, when the cluster reports an address of the batch as not
\* found, the fetch fails with AccountNotFound(K), K an address of the batch
\* that was reported not found, and K is not in the cache.
C5_StrictNotFoundFails ==
    (~allow_missing_accounts /\ Replied(last) /\ NotFound(last) # {}) =>
        /\ last.fetch_results[1].kind = "AccountNotFound"
        /\ \E i \in NotFound(last) : last.calls[1][i] = last.fetch_results[1].key
        /\ last.fetch_results[1].key \notin DOMAIN cache

\* a strict fetch of two addresses, the first found and stored, the second not
C5_Witness ==
    /\ ~allow_missing_accounts
    /\ Replied(last)
    /\ Len(last.replies[1]) = 2
    /\ last.replies[1][1] # <<>>
    /\ last.replies[1][2] = <<>>
    /\ last.calls[1][1] \in DOMAIN cache
    /\ last.fetch_results[1].kind = "AccountNotFound"

\* C6: in permissive mode a fetch never fails with AccountNotFound, and every
\* address the cluster reported as not found is cached as the zero-valued
\* account: no lamports, no data, the default owner, not executable, epoch 0.
C6_PermissiveStoresDefault ==
    allow_missing_accounts =>
        /\ Fetched(last) => last.fetch_results[1].kind # "AccountNotFound"
        /\ Replied(last) =>
              /\ last.fetch_results[1] = Ok
              /\ \A i \in NotFound(last) :
                    /\ last.calls[1][i] \in DOMAIN cache
                    /\ cache[last.calls[1][i]] =
                          [lamports |-> 0, data |-> <<>>, owner |-> Zeros(32),
                           executable |-> FALSE, rent_epoch |-> 0]

\* a permissive fetch in which the cluster reported an address as not found
C6_Witness ==
    /\ allow_missing_accounts
    /\ Replied(last)
    /\ NotFound(last) # {}
    /\ last.result = Ok

\* account a of the cache is an executable account owned by loader
IsProgram(a, loader) == cache[a].executable /\ cache[a].owner = loader

\* C7: a successful add_programs registers every cached executable account
\* owned by LOADER_V2 with its whole data as the ELF and LOADER_V2 as loader.
C7_DirectBytecodeIsData ==
    (last.op = "add_programs" /\ last.result = Ok) =>
        \A a \in DOMAIN cache :
           IsProgram(a, LOADER_V2) =>
              \E i \in 1..Len(last.registered) :
                 last.registered[i] =
                    [pubkey |-> a, elf |-> cache[a].data, loader_key |-> LOADER_V2]

\* a successful add_programs on a cache that holds a v2 program
C7_Witness ==
    /\ last.op = "add_programs"
    /\ last.result = Ok
    /\ \E a \in DOMAIN cache : IsProgram(a, LOADER_V2) /\ Len(cache[a].data) = 52

\* the address in bytes 4..36 of the data of cached account a
Pointer(a) == SubSeq(cache[a].data, 5, 36)

\* the data of account p of the cache from byte offset 45 to the end
Region(p) == SubSeq(cache[p].data, 46, Len(cache[p].data))

\* C8 as claimed: whenever a cached v3 program points to a cached account of
\* 50 bytes, add_programs registers the program with the last 5 of them.
C8_AsClaimed ==
    last.op = "add_programs" =>
        \A a \in DOMAIN cache :
           (/\ IsProgram(a, LOADER_V3)
            /\ Len(cache[a].data) >= 36
            /\ Pointer(a) \in DOMAIN cache
            /\ Len(cache[Pointer(a)].data) = 50) =>
              \E i \in 1..Len(last.registered) :
                 /\ last.registered[i].pubkey = a
                 /\ last.registered[i].elf = SubSeq(cache[Pointer(a)].data, 46, 50)

\* C8, amended: a successful add_programs has registered every cached v3
\* program with the data of its pointer target from byte offset 45 to the end
\* and LOADER_V3 as loader, and a registration made for a v3 program by any
\* add_programs carries exactly that region of its pointer target.
C8_IndirectBytecodeIsRegion ==
    last.op = "add_programs" =>
        /\ last.result = Ok =>
              \A a \in DOMAIN cache :
                 IsProgram(a, LOADER_V3) =>
                    /\ Len(cache[a].data) >= 36
                    /\ Pointer(a) \in DOMAIN cache
                    /\ \E i \in 1..Len(last.registered) :
                          last.registered[i] =
                             [pubkey |-> a, elf |-> Region(Pointer(a)), loader_key |-> LOADER_V3]
        /\ \A i \in 1..Len(last.registered) :
              last.registered[i].loader_key = LOADER_V3 =>
                 /\ Pointer(last.registered[i].pubkey) \in DOMAIN cache
                 /\ last.registered[i].elf = Region(Pointer(last.registered[i].pubkey))

\* a successful add_programs that fetched a pointer target of 50 bytes and
\* registered its last 5 bytes
C8_Witness ==
    /\ last.op = "add_programs"
    /\ last.result = Ok
    /\ Len(last.calls) = 1
    /\ \E i \in 1..Len(last.registered) :
          /\ last.registered[i].loader_key = LOADER_V3
          /\ Pointer(last.registered[i].pubkey) \in Range(last.calls[1])
          /\ Len(cache[Pointer(last.registered[i].pubkey)].data) = 50
          /\ last.registered[i].elf = <<127, 69, 76, 70, 2>>

\* C9: an add_programs that fails with MalformedProgram has registered nothing.
C9_MalformedRegistersNothing ==
    (last.op = "add_programs" /\ last.result.kind = "MalformedProgram") =>
        last.registered = <<>>

\* C10: in strict mode, when the cluster reports the pointer target P of a
\* cached v3 program as not found, add_programs fails with InvalidProgramData
\* naming P.
C10_MissingTargetIsInvalidProgramData ==
    (/\ last.op = "add_programs"
     /\ ~allow_missing_accounts
     /\ Replied(last)
     /\ NotFound(last) # {}) =>
        /\ last.result.kind = "InvalidProgramData"
        /\ \E i \in NotFound(last) : last.result.arg = last.calls[1][i]


\* the keys the cache held before the fetch of the call that has just returned
PreCached == DOMAIN cache \ (IF last.calls = <<>> THEN {} ELSE Range(last.calls[1]))

\* C11: when add_programs has registered anything, its first pass had gone
\* over every account cached before it without an error and had collected
\* every uncached pointer, the pointer fetch had succeeded, and the pointer
\* target of every v3 program registered is in the cache.
C11_RegistersAfterFirstPassAndFetch ==
    (last.op = "add_programs" /\ last.registered # <<>>) =>
        /\ \A a \in PreCached :
              IsProgram(a, LOADER_V3) =>
                 /\ Len(cache[a].data) >= 36
                 /\ Pointer(a) \in DOMAIN cache
                 /\ Pointer(a) \notin PreCached =>
                       (Fetched(last) /\ Pointer(a) \in Range(last.fetches[1]))
        /\ Fetched(last) => last.fetch_results = <<Ok>>
        /\ \A i \in 1..Len(last.registered) :
              last.registered[i].loader_key = LOADER_V3 =>
                 Pointer(last.registered[i].pubkey) \in DOMAIN cache

\* an add_programs on two cached programs that fetched a pointer target and
\* then registered
C11_Witness ==
    /\ last.op = "add_programs"
    /\ Cardinality(PreCached) = 2
    /\ Len(last.calls) = 1
    /\ last.registered # <<>>


\* the validator's condition written out: 52 bytes or more, the magic
\* 7F 45 4C 46, and a class byte (offset 4) of 1 or 2
PassesValidator(elf) ==
    /\ Len(elf) >= 52
    /\ SubSeq(elf, 1, 4) = <<127, 69, 76, 70>>
    /\ elf[5] \in {1, 2}

\* the reasons validate_elf gives
ValidatorReasons ==
    {"Data too small to be a valid ELF file", "Invalid ELF magic number", "Invalid ELF class"}

\* the bytecode of cached program a: its data (v2), the region of its
\* pointer target (v3)
Bytecode(a) == IF cache[a].owner = LOADER_V2 THEN cache[a].data ELSE Region(Pointer(a))

\* cached program a has a bytecode that add_programs can extract
HasBytecode(a) ==
    \/ IsProgram(a, LOADER_V2)
    \/ /\ IsProgram(a, LOADER_V3)
       /\ Len(cache[a].data) >= 36
       /\ Pointer(a) \in DOMAIN cache
       /\ Len(cache[Pointer(a)].data) > 45

\* the pubkeys add_programs registered in the call that has just returned
RegisteredKeys == {last.registered[i].pubkey : i \in 1..Len(last.registered)}

\* C12: with validation on, every bytecode add_programs registers passes the
\* validator; a validator failure is an InvalidProgramData naming a program
\* whose bytecode fails and which is not registered; and a call that leaves
\* a cached program with a failing bytecode is not a success.
C12_ValidationOnRegistersOnlyValid ==
    (validate_programs /\ last.op = "add_programs") =>
        /\ \A i \in 1..Len(last.registered) : PassesValidator(last.registered[i].elf)
        /\ last.result.reason \in ValidatorReasons =>
              /\ last.result.kind = "InvalidProgramData"
              /\ last.result.key \in DOMAIN cache
              /\ HasBytecode(last.result.key)
              /\ ~PassesValidator(Bytecode(last.result.key))
              /\ last.result.key \notin RegisteredKeys
        /\ \A a \in DOMAIN cache :
              (HasBytecode(a) /\ ~PassesValidator(Bytecode(a))) =>
                 (last.result # Ok /\ a \notin RegisteredKeys)

\* with validation on, add_programs registered a valid program and then
\* failed on one whose bytecode is too small
C12_Witness ==
    /\ validate_programs
    /\ last.op = "add_programs"
    /\ last.registered # <<>>
    /\ last.result.kind = "InvalidProgramData"
    /\ last.result.reason = "Data too small to be a valid ELF file"


\* ---- validate_elf on its own ------------------------------------------

\* buffer lengths around the validator's thresholds
ElfLens == {0, 3, 4, 5, 10, 51, 52, 60}

\* five leading bytes: each magic byte right or wrong, any class byte 0..3
ElfHeads == {<<a, b, c, d, e>> : a \in {127, 0}, b \in {69, 0}, c \in {76, 0},
                                 d \in {70, 0}, e \in 0..3}

\* the buffers validate_elf is applied to: a head cut or zero-padded to a length
ElfBuffers ==
    {IF n <= 5 THEN SubSeq(h, 1, n) ELSE h \o Zeros(n - 5) : h \in ElfHeads, n \in ElfLens}

\* a validate_elf call on buffer data: verdict is <<>> for Ok(()), <<reason>>
\* for Err(reason)
ElfCall(data, verdict, done) ==
    [op |-> "validate_elf", data |-> data, verdict |-> verdict, done |-> done]

ElfInit ==
    /\ cache = EmptyMap
    /\ allow_missing_accounts = FALSE
    /\ validate_programs = TRUE
    /\ mollusk = <<>>
    /\ ops = 0
    /\ \E data \in ElfBuffers : last = ElfCall(data, <<>>, FALSE)

\* validate_elf(data) returns
validate_elf_call ==
    /\ ~last.done
    /\ last' = ElfCall(last.data, validate_elf(last.data), TRUE)
    /\ UNCHANGED <<cache, allow_missing_accounts, validate_programs, mollusk, ops>>

ElfNext == validate_elf_call

ElfSpec == ElfInit /\ [][ElfNext]_vars

\* C13: validate_elf succeeds exactly when the buffer has at least 52 bytes,
\* starts with 7F 45 4C 46 and has 1 or 2 at offset 4, and fails otherwise.
C13_ValidatorAcceptsExactly ==
    last.done => (last.verdict = <<>> <=> PassesValidator(last.data))

\* a 60-byte buffer with the magic and class byte 2 has passed
C13_Witness ==
    /\ last.done
    /\ Len(last.data) = 60
    /\ SubSeq(last.data, 1, 5) = <<127, 69, 76, 70, 2>>
    /\ last.verdict = <<>>


\* ---- the fixture codec --------------------------------------------------
\* Text is a sequence of one-character strings.

\* the base58 alphabet of the canonical text form of an address
B58 ==
    << "1", "2", "3", "4", "5", "6", "7", "8", "9", "A", "B", "C", "D", "E",
       "F", "G", "H", "J", "K", "L", "M", "N", "P", "Q", "R", "S", "T", "U",
       "V", "W", "X", "Y", "Z", "a", "b", "c", "d", "e", "f", "g", "h", "i",
       "j", "k", "m", "n", "o", "p", "q", "r", "s", "t", "u", "v", "w", "x",
       "y", "z" >>

\* the standard base64 alphabet
B64 ==
    << "A", "B", "C", "D", "E", "F", "G", "H", "I", "J", "K", "L", "M", "N",
       "O", "P", "Q", "R", "S", "T", "U", "V", "W", "X", "Y", "Z", "a", "b",
       "c", "d", "e", "f", "g", "h", "i", "j", "k", "l", "m", "n", "o", "p",
       "q", "r", "s", "t", "u", "v", "w", "x", "y", "z", "0", "1", "2", "3",
       "4", "5", "6", "7", "8", "9", "+", "/" >>

\* the characters of the two alphabets
B58Chars == Range(B58)
B64Chars == Range(B64)

\* the zero-based position of character ch in alphabet alpha
IndexOf(alpha, ch) == (CHOOSE i \in 1..Len(alpha) : alpha[i] = ch) - 1

\* the number of leading elements of s equal to x
RECURSIVE LeadingCount(_, _)
LeadingCount(s, x) ==
    IF s = <<>> \/ s[1] # x THEN 0 ELSE 1 + LeadingCount(Tail(s), x)

\* n copies of x
Repeat(x, n) == [i \in 1..n |-> x]

\* long division of the big-endian base-256 number num by 58, from byte i with
\* carry rem: the quotient (same length) and the remainder
RECURSIVE DivMod58(_, _, _, _)
DivMod58(num, i, rem, quot) ==
    IF i > Len(num) THEN [quot |-> quot, rem |-> rem]
    ELSE LET v == rem * 256 + num[i]
         IN DivMod58(num, i + 1, v % 58, Append(quot, v \div 58))

\* the base58 digits, most significant first, of big-endian num (no leading
\* zero byte), in front of digits
RECURSIVE Base58Digits(_, _)
Base58Digits(num, digits) ==
    IF num = <<>> THEN digits
    ELSE LET dm == DivMod58(num, 1, 0, <<>>)
             z == LeadingCount(dm.quot, 0)
         IN Base58Digits(SubSeq(dm.quot, z + 1, Len(dm.quot)),
                         <<B58[dm.rem + 1]>> \o digits)


\* mutant: leading zero bytes are not written as leading "1" characters
Base58Encode_no_leading_ones(bytes) ==
    Base58Digits(SubSeq(bytes, LeadingCount(bytes, 0) + 1, Len(bytes)), <<>>)

\* the canonical text of an address: one "1" per leading zero byte, then the
\* base58 digits of the rest
Base58Encode(bytes) ==
    LET z == LeadingCount(bytes, 0)
    IN Repeat("1", z) \o Base58Digits(SubSeq(bytes, z + 1, Len(bytes)), <<>>)

\* little-endian base-256 number le times 58 plus carry
RECURSIVE MulAdd58(_, _)
MulAdd58(le, carry) ==
    IF le = <<>> THEN (IF carry = 0 THEN <<>> ELSE <<carry>>)
    ELSE LET v == le[1] * 58 + carry
         IN <<v % 256>> \o MulAdd58(Tail(le), v \div 256)

\* the little-endian base-256 number of the base58 text from character i on,
\* le being the number of the characters before
RECURSIVE Base58Number(_, _, _)
Base58Number(text, i, le) ==
    IF i > Len(text) THEN le
    ELSE Base58Number(text, i + 1, MulAdd58(le, IndexOf(B58, text[i])))

\* s back to front
Reverse(s) == [i \in 1..Len(s) |-> s[Len(s) + 1 - i]]

\* the bytes a base58 text stands for, as an Option: <<>> when a character
\* is outside the alphabet
Base58Decode(text) ==
    IF \E i \in 1..Len(text) : text[i] \notin B58Chars THEN <<>>
    ELSE LET z == LeadingCount(text, "1")
         IN <<Zeros(z) \o Reverse(Base58Number(text, z + 1, <<>>))>>

\* parsing the canonical text of an address: the decoded bytes must be 32
PubkeyFromStr(text) ==
    LET b == Base58Decode(text)
    IN IF b = <<>> THEN <<>> ELSE PubkeyTryFrom(b[1])

\* base64 with padding of a byte sequence
RECURSIVE Base64Encode(_)
Base64Encode(b) ==
    IF b = <<>> THEN <<>>
    ELSE IF Len(b) = 1
    THEN <<B64[b[1] \div 4 + 1], B64[(b[1] % 4) * 16 + 1], "=", "=">>
    ELSE IF Len(b) = 2
    THEN <<B64[b[1] \div 4 + 1], B64[(b[1] % 4) * 16 + b[2] \div 16 + 1],
           B64[(b[2] % 16) * 4 + 1], "=">>
    ELSE <<B64[b[1] \div 4 + 1], B64[(b[1] % 4) * 16 + b[2] \div 16 + 1],
           B64[(b[2] % 16) * 4 + b[3] \div 64 + 1], B64[(b[3] % 64) + 1]>>
         \o Base64Encode(SubSeq(b, 4, Len(b)))

\* the bytes of one group of four base64 characters, the last group possibly
\* padded
Base64Group(q) ==
    LET v(i) == IndexOf(B64, q[i])
    IN IF q[3] = "=" THEN <<v(1) * 4 + v(2) \div 16>>
       ELSE IF q[4] = "=" THEN <<v(1) * 4 + v(2) \div 16, (v(2) % 16) * 16 + v(3) \div 4>>
       ELSE <<v(1) * 4 + v(2) \div 16, (v(2) % 16) * 16 + v(3) \div 4,
              (v(3) % 4) * 64 + v(4)>>

\* the text is well-formed padded base64
Base64WellFormed(text) ==
    /\ Len(text) % 4 = 0
    /\ \A i \in 1..Len(text) :
          \/ text[i] \in B64Chars
          \/ /\ text[i] = "="
             /\ i >= Len(text) - 1
             /\ i = Len(text) - 1 => text[Len(text)] = "="

RECURSIVE Base64Bytes(_)
Base64Bytes(text) ==
    IF text = <<>> THEN <<>>
    ELSE Base64Group(SubSeq(text, 1, 4)) \o Base64Bytes(SubSeq(text, 5, Len(text)))

\* the bytes a base64 text stands for, as an Option
Base64Decode(text) == IF Base64WellFormed(text) THEN <<Base64Bytes(text)>> ELSE <<>>

\* decimal text of a natural number
RECURSIVE DecText(_)
DecText(n) ==
    LET d == <<"0", "1", "2", "3", "4", "5", "6", "7", "8", "9">>
    IN IF n < 10 THEN <<d[n + 1]>> ELSE Append(DecText(n \div 10), d[(n % 10) + 1])

\* the number a decimal text stands for
RECURSIVE ParseDec(_)
ParseDec(text) ==
    LET d == <<"0", "1", "2", "3", "4", "5", "6", "7", "8", "9">>
    IN IF Len(text) = 1 THEN IndexOf(d, text[1])
       ELSE ParseDec(SubSeq(text, 1, Len(text) - 1)) * 10 + IndexOf(d, text[Len(text)])


\* the serializable form of one account record
SerializeAccount(account) ==
    [lamports |-> DecText(account.lamports),
     data |-> Base64Encode(account.data),
     owner |-> Base58Encode(account.owner),
     executable |-> account.executable,
     rent_epoch |-> DecText(account.rent_epoch)]

\* save: the version-1 envelope of cache c written at time timestamp, slot and
\* rpc_url left unset
save(c, timestamp) ==
    LET text == [k \in DOMAIN c |-> Base58Encode(k)]
    IN [version |-> 1,
        metadata |-> [slot |-> <<>>, timestamp |-> <<timestamp>>, rpc_url |-> <<>>],
        accounts |-> [t \in {text[k] : k \in DOMAIN c} |->
                        SerializeAccount(c[CHOOSE k \in DOMAIN c : text[k] = t])]]

\* an entry of a fixture that load cannot turn into a record
Unparsable(t, entry) ==
    \/ PubkeyFromStr(t) = <<>>
    \/ PubkeyFromStr(entry.owner) = <<>>
    \/ Base64Decode(entry.data) = <<>>

\* the account record of a parsable fixture entry
DeserializeAccount(entry) ==
    Account(ParseDec(entry.lamports), Base64Decode(entry.data)[1],
            PubkeyFromStr(entry.owner)[1], entry.executable, ParseDec(entry.rent_epoch))

\* load: the cache of a fixture, or InvalidFixture
load(fixture) ==
    LET pubkey == [t \in DOMAIN fixture.accounts |-> PubkeyFromStr(t)]
    IN IF fixture.version # 1
       THEN [result |-> Err("InvalidFixture", <<>>, "Unsupported fixture version",
                            <<fixture.version>>),
             cache |-> EmptyMap]
       ELSE IF \E t \in DOMAIN fixture.accounts : Unparsable(t, fixture.accounts[t])
       THEN [result |-> Err("InvalidFixture", <<>>, "Invalid pubkey", <<>>),
             cache |-> EmptyMap]
       ELSE [result |-> Ok,
             cache |-> [k \in {pubkey[t][1] : t \in DOMAIN fixture.accounts} |->
                          DeserializeAccount(
                             fixture.accounts[CHOOSE t \in DOMAIN fixture.accounts :
                                                 pubkey[t] = <<k>>])]]

\* account records to save: the sample accounts, an empty one, and records
\* whose data length is 1 and 2 modulo 3 with bytes over the whole range
FixtureAccounts ==
    MockAccounts \cup
    {AccountDefault, ProgramData50,
     Account(1000000, <<255>>, PubkeyDefault, FALSE, 361),
     Account(2039280, <<0, 255, 254, 63, 62>>, Key(3), FALSE, 0)}

\* addresses to save under: two sample keys, the all-zero address and a real one
FixtureKeys == {Key(1), Key(2), PubkeyDefault, LOADER_V3}

\* the caches to save: up to MaxFixtureAccounts records
FixtureCaches ==
    UNION {[D -> FixtureAccounts] :
              D \in {S \in SUBSET FixtureKeys : Cardinality(S) <= MaxFixtureAccounts}}

\* the save times
Timestamps == {0, 1730246400}

\* a fixture call: fixture and loaded are Options
FixtureCall(op, fixture, loaded, result) ==
    [op |-> op, fixture |-> fixture, loaded |-> loaded, result |-> result]

FixtureInit ==
    /\ cache \in FixtureCaches
    /\ allow_missing_accounts = FALSE
    /\ validate_programs = TRUE
    /\ mollusk = <<>>
    /\ ops = 0
    /\ last = FixtureCall("new", <<>>, <<>>, Ok)

\* save(cache) writes the fixture file
save_call ==
    /\ last.op = "new"
    /\ \E timestamp \in Timestamps :
          last' = FixtureCall("save", <<save(cache, timestamp)>>, <<>>, Ok)
    /\ UNCHANGED <<cache, allow_missing_accounts, validate_programs, mollusk, ops>>

\* load reads the file save wrote
load_call ==
    /\ last.op = "save"
    /\ LET l == load(last.fixture[1])
       IN last' = FixtureCall("load", last.fixture,
                              IF l.result = Ok THEN <<l.cache>> ELSE <<>>, l.result)
    /\ UNCHANGED <<cache, allow_missing_accounts, validate_programs, mollusk, ops>>

FixtureNext == save_call \/ load_call

FixtureSpec == FixtureInit /\ [][FixtureNext]_vars

\* C14: loading the fixture saved from a cache succeeds and yields a cache
\* with the same keys and, for each key, the same lamports, data, owner,
\* executable flag and rent epoch.
C14_FixtureRoundTrip ==
    last.op = "load" =>
        /\ last.result = Ok
        /\ last.loaded # <<>>
        /\ DOMAIN last.loaded[1] = DOMAIN cache
        /\ \A k \in DOMAIN cache :
              /\ last.loaded[1][k].lamports = cache[k].lamports
              /\ last.loaded[1][k].data = cache[k].data
              /\ last.loaded[1][k].owner = cache[k].owner
              /\ last.loaded[1][k].executable = cache[k].executable
              /\ last.loaded[1][k].rent_epoch = cache[k].rent_epoch

\* a loaded fixture of two records, one under the all-zero address, one with
\* one byte of data, an all-zero owner and a non-zero rent epoch
C14_Witness ==
    /\ last.op = "load"
    /\ Cardinality(DOMAIN cache) = 2
    /\ PubkeyDefault \in DOMAIN cache
    /\ \E k \in DOMAIN cache :
          /\ Len(cache[k].data) = 1
          /\ cache[k].owner = PubkeyDefault
          /\ cache[k].rent_epoch = 361


\* C15: the batch handed to the network by any fetch names no address twice.
C15_BatchIsASet ==
    \A j \in 1..Len(last.calls) :
       \A k \in Range(last.calls[j]) : Count(last.calls[j], k) = 1


\* the positions at which the call that has just returned registered pubkey a
RegisteredAt(a) == {i \in 1..Len(last.registered) : last.registered[i].pubkey = a}

\* C16: when add_programs returns success, every account of the final cache
\* that is executable and owned by LOADER_V2 or LOADER_V3 has been registered
\* exactly once in that call.
C16_SuccessRegistersEveryProgramOnce ==
    (last.op = "add_programs" /\ last.result = Ok) =>
        \A a \in DOMAIN cache :
           (IsProgram(a, LOADER_V2) \/ IsProgram(a, LOADER_V3)) =>
              Cardinality(RegisteredAt(a)) = 1

\* a successful add_programs that fetched the pointer target of a cached v3
\* program
C16_Witness ==
    /\ last.op = "add_programs"
    /\ last.result = Ok
    /\ Len(last.calls) = 1
    /\ \E a \in DOMAIN cache :
          IsProgram(a, LOADER_V3) /\ Pointer(a) \in Range(last.calls[1])


\* cached account a is a program add_programs resolves
Resolvable(a) == IsProgram(a, LOADER_V2) \/ IsProgram(a, LOADER_V3)

\* C17: add_programs registers only cached executable accounts owned by
\* LOADER_V2 or LOADER_V3, under that loader; every pointer it fetches comes
\* from such a v3 account; a program error names such an account; and on a
\* cache with no such account it succeeds with no registration and no fetch.
C17_OnlyLoaderProgramsAreRegistered ==
    last.op = "add_programs" =>
        /\ \A i \in 1..Len(last.registered) :
              /\ last.registered[i].pubkey \in DOMAIN cache
              /\ Resolvable(last.registered[i].pubkey)
              /\ last.registered[i].loader_key = cache[last.registered[i].pubkey].owner
        /\ Fetched(last) =>
              \A p \in Range(last.fetches[1]) :
                 \E a \in PreCached : IsProgram(a, LOADER_V3) /\ Pointer(a) = p
        /\ last.result.kind \in {"MalformedProgram", "InvalidProgramData"} =>
              (last.result.key \in DOMAIN cache /\ Resolvable(last.result.key))
        /\ (\A a \in DOMAIN cache : ~Resolvable(a)) =>
              (last.result = Ok /\ last.registered = <<>> /\ ~Fetched(last))

\* add_programs has returned on a cache that holds an executable account of
\* another owner and a non-executable account owned by the v3 loader, and
\* nothing else
C17_Witness ==
    /\ last.op = "add_programs"
    /\ \E a \in DOMAIN cache : cache[a].executable /\ cache[a].owner = NATIVE_LOADER
    /\ \E a \in DOMAIN cache : ~cache[a].executable /\ cache[a].owner = LOADER_V3
    /\ \A a \in DOMAIN cache : ~Resolvable(a)


\* C18: when the network fails a fetch, the call returns the Client error
\* after exactly one network attempt, leaves the cache as it was and
\* registers nothing; and the Client error is returned in no other case.
C18_TransportFailureIsNotRetried ==
    [][/\ Len(last'.calls) > Len(last'.replies) =>
             /\ Len(last'.calls) = 1
             /\ last'.result.kind = "Client"
             /\ cache' = cache
             /\ last'.registered = <<>>
             /\ mollusk' = mollusk
       /\ last'.result.kind = "Client" =>
             (Len(last'.calls) = 1 /\ last'.replies = <<>>)]_vars

\* the pointer fetch of add_programs has failed in transport on a cache that
\* holds a v2 program besides the v3 one
C18_Witness ==
    /\ last.op = "add_programs"
    /\ last.result.kind = "Client"
    /\ Len(last.calls) = 1
    /\ \E a \in DOMAIN cache : IsProgram(a, LOADER_V2)


\* the positions of address k in the pairs handed to with_accounts
MockedAt(call, k) == {i \in 1..Len(call.mocks) : call.mocks[i][1] = k}

\* the largest element of a non-empty set of numbers
Max(S) == CHOOSE x \in S : \A y \in S : y <= x

\* C19: a call other than with_accounts leaves every record the cache held
\* as it was; with_accounts sets each address it names to the last record
\* given for it, whole, and leaves every other record as it was.
C19_FetchKeepsOverridesReplace ==
    [][/\ last'.op # "with_accounts" =>
             \A k \in DOMAIN cache : k \in DOMAIN cache' /\ cache'[k] = cache[k]
       /\ last'.op = "with_accounts" =>
             \A k \in DOMAIN cache' :
                IF MockedAt(last', k) # {}
                THEN cache'[k] = last'.mocks[Max(MockedAt(last', k))][2]
                ELSE k \in DOMAIN cache /\ cache'[k] = cache[k]]_vars

\* a fetch that went to the network for one address while another address it
\* was asked for stays cached with a record that is not the ledger's
C19_Witness ==
    /\ last.op \in {"from_instruction", "from_instructions"}
    /\ Len(last.calls) = 1
    /\ last.fetch_results = <<Ok>>
    /\ \E k \in Range(last.fetches[1]) \ Range(last.calls[1]) : cache[k] # OnChain(k)


\* C20: when the fetch of a call has returned Ok, every address it was asked
\* for is a key of the cache, and each address of the batch that the network
\* answered with a record holds the record returned at its position.
C20_SuccessfulFetchPostcondition ==
    (Fetched(last) /\ last.fetch_results = <<Ok>>) =>
        /\ \A k \in Range(last.fetches[1]) : k \in DOMAIN cache
        /\ Replied(last) =>
              /\ Len(last.replies[1]) = Len(last.calls[1])
              /\ \A i \in 1..Len(last.calls[1]) :
                    last.replies[1][i] # <<>> =>
                       cache[last.calls[1][i]] = last.replies[1][i][1]

\* a successful fetch of a batch of two addresses answered with two
\* different records
C20_Witness ==
    /\ Fetched(last)
    /\ last.fetch_results = <<Ok>>
    /\ Replied(last)
    /\ Len(last.calls[1]) = 2
    /\ last.replies[1][1] # <<>>
    /\ last.replies[1][2] # <<>>
    /\ last.replies[1][1] # last.replies[1][2]

====
